---- MODULE Spec2Model ----
(***************************************************************************)
(* A model of BlueBirdQueue (src/index.js): a queue of promise factories   *)
(* and thenables that is resolved in batches of at most `concurrency`.     *)
(*                                                                         *)
(* The engine's fields are the variables _queue, _queueWaiting,            *)
(* _processed, _working, onComplete, onError and concurrency.  The         *)
(* environment (Node's event loop and the bluebird promises) is modelled   *)
(* by: the pending process.nextTick callbacks (ticks), the live setTimeout *)
(* timers (timers), the batches whose BlueBird.all(...) chain has not yet  *)
(* run its handler (inflight) and the units that were started but whose    *)
(* chain is gone (orphans).  The remaining variables only observe the run  *)
(* (what was enqueued, which callbacks were invoked with what).            *)
(***************************************************************************)
EXTENDS Naturals, Sequences, FiniteSets

VARIABLES
  _queue,         \* this._queue: pending work items, head first
  _queueWaiting,  \* this._queueWaiting: handles returned by setTimeout
  _processed,     \* this._processed: values of the settled batches
  _working,       \* this._working
  onComplete,     \* this.onComplete: 0 = the callback given at construction,
                  \*   k > 0 = resolve of the promise returned by the k-th start()
  onError,        \* this.onError: same encoding (reject of the k-th start())
  concurrency,    \* this.concurrency
  ticks,          \* number of process.nextTick callbacks not yet run
  timers,         \* handles of the timers that are scheduled and not yet fired/cleared
  nextTimer,      \* the handle the next setTimeout returns
  inflight,       \* batches dispatched whose spread/catch handler has not run
  orphans,        \* number of started, unsettled units that no batch chain waits for
  promises,       \* promises[k]: state of the promise returned by the k-th start()
  enqueued,       \* every item that entered _queue, in order
  batchLog,       \* sizes of the batches dispatched, in order
  completeCalls,  \* number of invocations of the completion callback
  errorCalls,     \* number of invocations of the error callback
  delivered,      \* the list passed to the latest completion callback invocation
  lastError,      \* the error passed to the latest error callback invocation
  atStart,        \* Len(enqueued) and Len(_queue) when start() was last called
  nowBusy,        \* ids of the items enqueued by addNow() while a batch was in flight
  rejections,     \* number of batches whose BlueBird.all(...) rejected
  cleared,        \* handles of the timers clearTimeout() cancelled before they fired
  threw           \* whether the latest step threw an exception to its caller

vars == << _queue, _queueWaiting, _processed, _working, onComplete, onError,
           concurrency, ticks, timers, nextTimer, inflight, orphans, promises,
           enqueued, batchLog, completeCalls, errorCalls, delivered, lastError,
           atStart, nowBusy, rejections, cleared, threw >>

(***************************************************************************)
(* Bounds of the model.                                                    *)
(***************************************************************************)
MaxConc == 3      \* concurrency ranges over 1..MaxConc
MaxItems == 5     \* items enqueued in a run
MaxBusy == 3      \* items enqueued in a run with contention
MaxStarts == 2    \* calls of start() in a run
MaxTimers == 2    \* retry timers scheduled in a run
MaxArr == 2       \* length of an array passed to add()

(***************************************************************************)
(* Work items.  A prototype is what the caller passes; an item is a        *)
(* prototype in the queue, numbered in enqueue order.  The value a unit    *)
(* resolves with, and the error it rejects or throws with, is its id.      *)
(*   shape "fn"   : a callable (typeof === 'function')                     *)
(*   shape "then" : an object with a 'then' property                       *)
(*   shape "obj"  : an object without 'then'                               *)
(*   shape "prim" : a truthy primitive ('then' in 42 is a TypeError)       *)
(*   shape "nil"  : null/undefined (falsy; 'then' in null is a TypeError)  *)
(*   out  "ok" / "rej" : its promise resolves / rejects                    *)
(*   out  "throw"      : the factory throws when it is invoked             *)
(***************************************************************************)
Proto(sh, o) == [shape |-> sh, out |-> o]

FnOk == {Proto("fn", "ok")}
OkProtos == {Proto("fn", "ok"), Proto("then", "ok")}
RejProtos == {Proto("fn", "rej")}
ThrowProtos == {Proto("fn", "throw")}
BadProtos == {Proto("obj", "ok"), Proto("prim", "ok"), Proto("nil", "ok")}

RECURSIVE SeqsUpTo(_, _)
SeqsUpTo(S, n) ==
  IF n = 0 THEN {<< >>}
  ELSE LET shorter == SeqsUpTo(S, n - 1)
       IN  shorter \cup {Append(q, x) : q \in {p \in shorter : Len(p) = n - 1}, x \in S}

\* The arguments add()/addNow() are called with: one value, or an array of values.
Inputs(P) ==
  {[arr |-> FALSE, vals |-> << p >>] : p \in P}
    \cup {[arr |-> TRUE, vals |-> v] : v \in SeqsUpTo(P, MaxArr)}

IsArray(inp) == inp.arr
IsFunction(x) == x.shape = "fn"
HasThen(x) == x.shape = "then"
InThrowsTypeError(x) == x.shape \in {"prim", "nil"}
Truthy(x) == x.shape # "nil"
IsPromise(x) == x.shape \in {"fn", "then"}

Items(vals, from) ==
  [k \in 1..Len(vals) |-> [id |-> from + k, shape |-> vals[k].shape, out |-> vals[k].out]]

Values(units) == [k \in 1..Len(units) |-> units[k].id]

Range(f) == {f[k] : k \in DOMAIN f}

(***************************************************************************)
(* The engine and its environment as one record, so that the methods can   *)
(* be composed the way the code calls them (drain() calls _dequeue() in a  *)
(* loop, the batch handler calls _dequeue()).                              *)
(***************************************************************************)
Self ==
  [queue |-> _queue, waiting |-> _queueWaiting, processed |-> _processed,
   working |-> _working, onComplete |-> onComplete, onError |-> onError,
   concurrency |-> concurrency, ticks |-> ticks, timers |-> timers,
   nextTimer |-> nextTimer, inflight |-> inflight, orphans |-> orphans,
   promises |-> promises, enqueued |-> enqueued, batchLog |-> batchLog,
   completeCalls |-> completeCalls, errorCalls |-> errorCalls,
   delivered |-> delivered, lastError |-> lastError, atStart |-> atStart,
   nowBusy |-> nowBusy, rejections |-> rejections, cleared |-> cleared,
   threw |-> threw]

\* The step's result n becomes the next state.
Commit(s) ==
  \E n \in {s} :
    /\ _queue' = n.queue
    /\ _queueWaiting' = n.waiting
    /\ _processed' = n.processed
    /\ _working' = n.working
    /\ onComplete' = n.onComplete
    /\ onError' = n.onError
    /\ concurrency' = n.concurrency
    /\ ticks' = n.ticks
    /\ timers' = n.timers
    /\ nextTimer' = n.nextTimer
    /\ inflight' = n.inflight
    /\ orphans' = n.orphans
    /\ promises' = n.promises
    /\ enqueued' = n.enqueued
    /\ batchLog' = n.batchLog
    /\ completeCalls' = n.completeCalls
    /\ errorCalls' = n.errorCalls
    /\ delivered' = n.delivered
    /\ lastError' = n.lastError
    /\ atStart' = n.atStart
    /\ nowBusy' = n.nowBusy
    /\ rejections' = n.rejections
    /\ cleared' = n.cleared
    /\ threw' = n.threw

\* A step begins: nothing has been thrown yet.  Throw: the call throws to its caller.
Called(s) == [s EXCEPT !.threw = FALSE]
Throw(s) == [s EXCEPT !.threw = TRUE]

(***************************************************************************)
(* The callbacks.  Callback 0 is the one given at construction (or         *)
(* assigned by the caller); callback k > 0 settles the promise returned by *)
(* the k-th start(), and settling a settled promise changes nothing.       *)
(***************************************************************************)
Settle(ps, cb, st, val) ==
  IF cb > 0 /\ ps[cb].st = "pending"
  THEN [ps EXCEPT ![cb] = [st |-> st, val |-> val]]
  ELSE ps

InvokeComplete(s) ==
  [s EXCEPT !.completeCalls = @ + 1,
            !.delivered = s.processed,
            !.promises = Settle(@, s.onComplete, "resolved", s.processed)]

InvokeError(s, cb, err) ==
  [s EXCEPT !.errorCalls = @ + 1,
            !.lastError = err,
            !.promises = Settle(@, cb, "rejected", << err >>)]

(***************************************************************************)
(* _dequeue, lines 158-163: the loop that fills a batch.  i counts from 0  *)
(* as in the code; the test reads _queue[i] and the removal takes the      *)
(* head.  ex is the id of the factory that threw, 0 if none did.           *)
(***************************************************************************)
\* The loop taking the item at the index it tests, self._queue[i], while
\* shift() removes the head.
RECURSIVE TakeLoopByIndex(_, _, _, _)
TakeLoopByIndex(q, batch, i, c) ==
  IF i >= c THEN [queue |-> q, promises |-> batch, ex |-> 0]
  ELSE IF i < Len(q) /\ Truthy(q[i + 1])
       THEN LET promise == q[i + 1]
            IN  IF IsFunction(promise) /\ promise.out = "throw"
                THEN [queue |-> Tail(q), promises |-> batch, ex |-> promise.id]
                ELSE TakeLoopByIndex(Tail(q), Append(batch, promise), i + 1, c)
       ELSE TakeLoopByIndex(q, batch, i + 1, c)

RECURSIVE TakeLoop(_, _, _, _)
TakeLoop(q, batch, i, c) ==
  IF i >= c THEN [queue |-> q, promises |-> batch, ex |-> 0]
  ELSE IF i < Len(q) /\ Truthy(q[i + 1])
       THEN LET promise == Head(q)
            IN  IF IsFunction(promise) /\ promise.out = "throw"
                THEN [queue |-> Tail(q), promises |-> batch, ex |-> promise.id]
                ELSE TakeLoop(Tail(q), Append(batch, promise), i + 1, c)
       ELSE TakeLoop(q, batch, i + 1, c)

\* BlueBird.all(promises): done counts the units that have resolved; a value
\* that is no promise counts as resolved at once.  onErr is the handler given
\* to catch().
NewBatch(units, cb) ==
  [units |-> units,
   done |-> Cardinality({k \in 1..Len(units) : ~IsPromise(units[k])}),
   onErr |-> cb]

Unsettled(b) == Len(b.units) - b.done

_dequeue(s) ==
  IF s.working
  THEN [s EXCEPT !.waiting = Append(@, s.nextTimer),
                 !.timers = @ \cup {s.nextTimer},
                 !.nextTimer = @ + 1]
  ELSE LET r == TakeLoop(s.queue, << >>, 0, s.concurrency)
       IN  IF r.ex # 0
           THEN InvokeError(
                  [s EXCEPT !.queue = r.queue,
                            !.working = FALSE,
                            !.orphans = @ + Unsettled(NewBatch(r.promises, 0))],
                  s.onError, r.ex)
           ELSE IF r.promises = << >>
           THEN [s EXCEPT !.queue = r.queue, !.working = FALSE]
           ELSE [s EXCEPT !.queue = r.queue,
                          !.working = TRUE,
                          !.inflight = @ \cup {NewBatch(r.promises, s.onError)},
                          !.batchLog = Append(@, Len(r.promises))]

\* Mutant of BatchHandler: the batch's values are put in front of _processed.
BatchHandlerPrepend(s, b) ==
  LET s1 == [s EXCEPT !.inflight = @ \ {b},
                      !.processed = Values(b.units) \o @]
      s2 == IF Len(s1.queue) = 0 /\ Len(s1.waiting) = 0 THEN InvokeComplete(s1) ELSE s1
      s3 == [s2 EXCEPT !.working = FALSE]
  IN  IF Len(s3.queue) # 0 /\ Len(s3.waiting) = 0 THEN _dequeue(s3) ELSE s3

\* Mutant of BatchHandler: line 176 is missing, the next batch is not started.
BatchHandlerNoRestart(s, b) ==
  LET s1 == [s EXCEPT !.inflight = @ \ {b},
                      !.processed = @ \o Values(b.units)]
      s2 == IF Len(s1.queue) = 0 /\ Len(s1.waiting) = 0 THEN InvokeComplete(s1) ELSE s1
  IN  [s2 EXCEPT !.working = FALSE]

\* _dequeue, lines 170-176: the handler given to spread(), run for batch b.
BatchHandler(s, b) ==
  LET s1 == [s EXCEPT !.inflight = @ \ {b},
                      !.processed = @ \o Values(b.units)]
      s2 == IF Len(s1.queue) = 0 /\ Len(s1.waiting) = 0 THEN InvokeComplete(s1) ELSE s1
      s3 == [s2 EXCEPT !.working = FALSE]
  IN  IF Len(s3.queue) # 0 /\ Len(s3.waiting) = 0 THEN _dequeue(s3) ELSE s3

\* Mutant of CatchHandler: the handler is the callback given at construction.
CatchHandlerDefault(s, b, err) ==
  InvokeError([s EXCEPT !.inflight = @ \ {b},
                        !.rejections = @ + 1,
                        !.orphans = @ + (Unsettled(b) - 1)],
              0, err)

\* _dequeue, line 177: catch(self.onError), with the onError read at dispatch.
\* The catch handler that also clears the busy flag.
CatchHandlerClearsBusy(s, b, err) ==
  InvokeError([s EXCEPT !.inflight = @ \ {b},
                        !.rejections = @ + 1,
                        !.working = FALSE,
                        !.orphans = @ + (Unsettled(b) - 1)],
              b.onErr, err)

CatchHandler(s, b, err) ==
  InvokeError([s EXCEPT !.inflight = @ \ {b},
                        !.rejections = @ + 1,
                        !.orphans = @ + (Unsettled(b) - 1)],
              b.onErr, err)

add(s, func) ==
  IF IsArray(func)
  THEN [s EXCEPT !.queue = @ \o Items(func.vals, Len(s.enqueued)),
                 !.enqueued = @ \o Items(func.vals, Len(s.enqueued))]
  ELSE LET x == func.vals[1]
       IN  IF IsFunction(x)
           THEN [s EXCEPT !.queue = @ \o Items(func.vals, Len(s.enqueued)),
                          !.enqueued = @ \o Items(func.vals, Len(s.enqueued))]
           ELSE IF InThrowsTypeError(x) THEN Throw(s)
           ELSE IF HasThen(x)
           THEN [s EXCEPT !.queue = @ \o Items(func.vals, Len(s.enqueued)),
                          !.enqueued = @ \o Items(func.vals, Len(s.enqueued))]
           ELSE Throw(s)

addNow(s, func) ==
  LET a == add(s, func)
  IN  IF a.threw THEN a
      ELSE LET n == [a EXCEPT !.nowBusy =
                        IF s.inflight # {}
                        THEN @ \cup {it.id : it \in Range(Items(func.vals, Len(s.enqueued)))}
                        ELSE @]
           IN  IF ~n.working THEN _dequeue(n) ELSE n

\* start() with the dispatch attempt made inside the call instead of on the
\* next turn.
startSync(s) ==
  LET k == Len(s.promises) + 1
  IN  [_dequeue(s) EXCEPT !.promises = Append(@, [st |-> "pending", val |-> << >>]),
                          !.onComplete = k,
                          !.onError = k,
                          !.atStart = [enq |-> Len(s.enqueued), pending |-> Len(s.queue)]]

start(s) ==
  LET k == Len(s.promises) + 1
  IN  [s EXCEPT !.ticks = @ + 1,
                !.promises = Append(@, [st |-> "pending", val |-> << >>]),
                !.onComplete = k,
                !.onError = k,
                !.atStart = [enq |-> Len(s.enqueued), pending |-> Len(s.queue)]]

RECURSIVE DrainLoop(_, _)
DrainLoop(s, n) ==
  IF n = 0 THEN s
  ELSE DrainLoop(_dequeue([s EXCEPT !.working = FALSE]), n - 1)

\* drain() that empties the retry-timer list without cancelling the timers.
drainKeepTimers(s) ==
  IF Len(s.queue) = 0 THEN s
  ELSE LET c == [s EXCEPT !.waiting = << >>]
           batches == Len(c.queue) \div c.concurrency
       IN  IF batches = 0
           THEN _dequeue([c EXCEPT !.working = FALSE])
           ELSE DrainLoop(c, batches)

drain(s) ==
  IF Len(s.queue) = 0 THEN s
  ELSE LET c == [s EXCEPT !.timers = @ \ Range(s.waiting),
                          !.cleared = @ \cup (s.timers \cap Range(s.waiting)),
                          !.waiting = << >>]
           batches == Len(c.queue) \div c.concurrency
       IN  IF batches = 0
           THEN _dequeue([c EXCEPT !.working = FALSE])
           ELSE DrainLoop(c, batches)

(***************************************************************************)
(* Initial state: the constructor, lines 6-59.                             *)
(***************************************************************************)
Init ==
  /\ _queue = << >>
  /\ _queueWaiting = << >>
  /\ _processed = << >>
  /\ _working = FALSE
  /\ onComplete = 0
  /\ onError = 0
  /\ concurrency \in 1..MaxConc
  /\ ticks = 0
  /\ timers = {}
  /\ nextTimer = 1
  /\ inflight = {}
  /\ orphans = 0
  /\ promises = << >>
  /\ enqueued = << >>
  /\ batchLog = << >>
  /\ completeCalls = 0
  /\ errorCalls = 0
  /\ delivered = << >>
  /\ lastError = 0
  /\ atStart = [enq |-> 0, pending |-> 0]
  /\ nowBusy = {}
  /\ rejections = 0
  /\ cleared = {}
  /\ threw = FALSE

(***************************************************************************)
(* Actions.  The calls of the public methods happen in the caller's        *)
(* synchronous code; a nextTick callback runs before the event loop goes   *)
(* on, so no timer and no promise handler runs while one is pending.       *)
(***************************************************************************)
\* _dequeue() in the busy branch schedules a timer: the model bounds their number.
CanDequeue(s) == s.working => s.nextTimer <= MaxTimers

Add(P, n) ==
  \E func \in Inputs(P) :
    /\ Len(enqueued) + Len(func.vals) <= n
    /\ Commit(add(Called(Self), func))

AddNow(P, n) ==
  \E func \in Inputs(P) :
    /\ Len(enqueued) + Len(func.vals) <= n
    /\ Commit(addNow(Called(Self), func))

Start(n) ==
  /\ Len(promises) < n
  /\ Commit(start(Called(Self)))

Drain ==
  /\ Commit(drain(Called(Self)))

Tick ==
  /\ ticks > 0
  /\ CanDequeue(Self)
  /\ Commit(_dequeue([Called(Self) EXCEPT !.ticks = @ - 1]))

TimerFire ==
  \E t \in timers :
    /\ ticks = 0
    /\ CanDequeue(Self)
    /\ Commit(_dequeue([Called(Self) EXCEPT !.timers = @ \ {t}]))

\* A unit of an in-flight batch resolves.
UnitResolve ==
  \E b \in inflight :
    /\ ticks = 0
    /\ b.done < Cardinality({k \in 1..Len(b.units) : b.units[k].out = "ok"})
    /\ Commit([Called(Self) EXCEPT
                 !.inflight = (@ \ {b}) \cup {[b EXCEPT !.done = @ + 1]}])

\* A unit of an in-flight batch rejects: BlueBird.all rejects and the catch handler runs.
UnitReject ==
  \E b \in inflight : \E k \in 1..Len(b.units) :
    /\ ticks = 0
    /\ b.units[k].out = "rej"
    /\ Commit(CatchHandler(Called(Self), b, b.units[k].id))

\* Every unit of a batch has resolved and the delay has passed: the spread handler runs.
BatchSettle ==
  \E b \in inflight :
    /\ ticks = 0
    /\ b.done = Len(b.units)
    /\ Commit(BatchHandler(Called(Self), b))

\* A unit whose chain is gone settles: nothing of the engine observes it.
OrphanSettle ==
  /\ ticks = 0
  /\ orphans > 0
  /\ Commit([Called(Self) EXCEPT !.orphans = @ - 1])

(***************************************************************************)
(* Specifications.                                                         *)
(***************************************************************************)
\* What the event loop runs: callbacks that are due and settlements of units.
Events ==
  \/ Tick
  \/ TimerFire
  \/ UnitResolve
  \/ UnitReject
  \/ BatchSettle
  \/ OrphanSettle

\* The event loop does not stop while a callback is due or a unit can settle.
Fairness == WF_vars(Events)

\* The graceful path: add() at any time, start() once, no drain(); units
\* resolve or reject.
NextStart ==
  \/ Add(OkProtos \cup RejProtos, MaxItems)
  \/ Start(1)
  \/ Tick
  \/ UnitResolve
  \/ UnitReject
  \/ BatchSettle
  \/ OrphanSettle

SpecStart == Init /\ [][NextStart]_vars /\ Fairness

\* Any interleaving of add(), addNow(), start(), retry timers and settlements,
\* no drain(); every unit resolves.
NextFree ==
  \/ Add(FnOk, MaxBusy)
  \/ AddNow(FnOk, MaxBusy)
  \/ Start(MaxStarts)
  \/ Tick
  \/ TimerFire
  \/ UnitResolve
  \/ BatchSettle

SpecFree == Init /\ [][NextFree]_vars /\ Fairness

\* As SpecFree, with factories whose promise rejects and factories that throw.
FaultProtos == {Proto("fn", "ok"), Proto("fn", "rej"), Proto("fn", "throw")}

NextFault ==
  \/ Add(FaultProtos, MaxBusy)
  \/ AddNow(FaultProtos, MaxBusy)
  \/ Start(MaxStarts)
  \/ Tick
  \/ TimerFire
  \/ UnitResolve
  \/ UnitReject
  \/ BatchSettle
  \/ OrphanSettle

SpecFault == Init /\ [][NextFault]_vars /\ Fairness

\* No drain(); factories resolve or throw when they are invoked.
NextThrow ==
  \/ Add(FnOk \cup ThrowProtos, MaxItems)
  \/ AddNow(FnOk \cup ThrowProtos, MaxItems)
  \/ Start(1)
  \/ Tick
  \/ TimerFire
  \/ UnitResolve
  \/ BatchSettle
  \/ OrphanSettle

SpecThrow == Init /\ [][NextThrow]_vars /\ Fairness

\* Forced drain: add() at any time, and one drain() that starts the run.
DrainOnce ==
  /\ batchLog = << >>
  /\ Drain

NextDrain ==
  \/ Add(FnOk, MaxItems)
  \/ DrainOnce
  \/ UnitResolve
  \/ BatchSettle

SpecDrain == Init /\ [][NextDrain]_vars /\ Fairness

\* add() and addNow() with every kind of argument.
NextAdd ==
  \/ Add(FnOk \cup BadProtos, MaxBusy)
  \/ AddNow(FnOk \cup BadProtos, MaxBusy)
  \/ UnitResolve
  \/ BatchSettle

SpecAdd == Init /\ [][NextAdd]_vars /\ Fairness

\* Every operation at any time, with one start(); every unit resolves.
NextRetry ==
  \/ Add(FnOk, MaxBusy)
  \/ AddNow(FnOk, MaxBusy)
  \/ Start(1)
  \/ Drain
  \/ Tick
  \/ TimerFire
  \/ UnitResolve
  \/ BatchSettle

SpecRetry == Init /\ [][NextRetry]_vars /\ Fairness

\* add(), start() and drain() at any time: several retry timers can be pending
\* when drain() is called.
NextCancel ==
  \/ Add(FnOk, MaxBusy)
  \/ Start(MaxStarts)
  \/ Drain
  \/ Tick
  \/ TimerFire
  \/ UnitResolve
  \/ BatchSettle

SpecCancel == Init /\ [][NextCancel]_vars /\ Fairness

\* As SpecFree, with factories whose promise rejects.
NextReject ==
  \/ Add(FnOk \cup RejProtos, MaxBusy)
  \/ AddNow(FnOk \cup RejProtos, MaxBusy)
  \/ Start(MaxStarts)
  \/ Tick
  \/ TimerFire
  \/ UnitResolve
  \/ UnitReject
  \/ BatchSettle
  \/ OrphanSettle

SpecReject == Init /\ [][NextReject]_vars /\ Fairness

\* add(), addNow() and drain() at any time; factories resolve or throw when
\* they are invoked.
NextThrowDrain ==
  \/ Add(FnOk \cup ThrowProtos, MaxBusy)
  \/ AddNow(FnOk \cup ThrowProtos, MaxBusy)
  \/ Drain
  \/ UnitResolve
  \/ BatchSettle
  \/ OrphanSettle

SpecThrowDrain == Init /\ [][NextThrowDrain]_vars /\ Fairness

(***************************************************************************)
(* Properties.                                                             *)
(***************************************************************************)
AllResolve == \A k \in 1..Len(enqueued) : enqueued[k].out = "ok"

RECURSIVE SumUnsettled(_)
SumUnsettled(S) ==
  IF S = {} THEN 0
  ELSE LET b == CHOOSE x \in S : TRUE IN Unsettled(b) + SumUnsettled(S \ {b})

\* Units the engine has started and that have not settled.
UnitsInFlight == orphans + SumUnsettled(inflight)

\* Nothing is left for the event loop to run.
Quiescent == ticks = 0 /\ timers = {} /\ inflight = {} /\ orphans = 0

\* C1: on the graceful path (add(), one start(), no drain()), when every unit
\* resolves, the list passed to the completion callback, which is the value
\* the promise returned by start() resolves with, holds the values of all
\* the items enqueued, in enqueue order.
C1_GracefulOrder ==
  [][(completeCalls' > completeCalls /\ AllResolve')
       => /\ delivered' = Values(enqueued')
          /\ promises'[1] = [st |-> "resolved", val |-> Values(enqueued')]]_vars

\* More items than concurrency, factories and thenables, delivered in order.
C1_Witness ==
  /\ completeCalls = 1
  /\ concurrency >= 2
  /\ Len(delivered) > concurrency
  /\ Len(batchLog) >= 2
  /\ delivered = Values(enqueued)
  /\ promises[1].val = delivered
  /\ \E j, k \in 1..Len(enqueued) : enqueued[j].shape = "fn" /\ enqueued[k].shape = "then"

CeilDiv(n, c) == (n + c - 1) \div c

\* ceil(n/c) batches of c items, the last one of n mod c items (c if that is 0).
ExpectedBatches(n, c) ==
  [k \in 1..CeilDiv(n, c) |-> IF k * c <= n THEN c ELSE n % c]

\* C2: N items enqueued with add() and then start()-ed are dispatched as
\* ceil(N/C) batches, each of exactly C items except possibly the last.
C2_BatchSizes ==
  (completeCalls >= 1 /\ atStart.enq = Len(enqueued) /\ AllResolve)
    => batchLog = ExpectedBatches(Len(enqueued), concurrency)

\* C3: without drain(), the units started and not yet settled never exceed
\* concurrency.
C3_Ceiling == UnitsInFlight <= concurrency

\* start() was called once, after every add(), and item i is the one that rejects.
OneRejects(i) ==
  /\ Len(promises) = 1
  /\ atStart.enq = Len(enqueued)
  /\ {k \in 1..Len(enqueued) : enqueued[k].out = "rej"} = {i}

\* The promise returned by the k-th start() is rejected with the error of unit i.
RejectedWith(k, i) ==
  Len(promises) >= k /\ promises[k] = [st |-> "rejected", val |-> << i >>]

\* C4: when exactly one of the items enqueued before start() rejects, the
\* promise returned by start() is eventually rejected with that unit's error
\* (unless further items are enqueued after start()), and the completion
\* callback is not invoked.
C4_ErrorPropagation ==
  /\ [](\A i \in 1..MaxItems : OneRejects(i) => completeCalls = 0)
  /\ (\E i \in 1..MaxItems : OneRejects(i))
       ~> \/ \E i \in 1..MaxItems : OneRejects(i) /\ RejectedWith(1, i)
          \/ Len(enqueued) > atStart.enq

\* The failing unit is not in the first batch; the promise is rejected with its error.
C4_Witness ==
  \E i \in 1..MaxItems :
    /\ OneRejects(i)
    /\ i > concurrency
    /\ Len(batchLog) >= 2
    /\ RejectedWith(1, i)
    /\ errorCalls = 1
    /\ completeCalls = 0

\* C5: the completion and error callbacks are invoked at most once in total.
C5_SingleReport == completeCalls + errorCalls <= 1

\* C6: when the completion callback is invoked no started unit is unsettled
\* and the list it is passed has one entry for every item enqueued.
C6_FullLog ==
  [][completeCalls' > completeCalls
       => /\ UnitsInFlight' = 0
          /\ Len(delivered') = Len(enqueued')
          /\ Range(delivered') = Range(Values(enqueued'))]_vars

\* C7: without drain(), when start() was called with an item pending and
\* every unit resolves, the promise returned by the last start() is resolved
\* once the event loop has nothing left to run.
C7_CompletionDespiteContention ==
  (Quiescent /\ Len(promises) >= 1 /\ atStart.pending >= 1)
    => promises[Len(promises)].st = "resolved"

ValidInput(func) == \A k \in 1..Len(func.vals) : IsPromise(func.vals[k])

\* C8: add() with an argument that is no callable, no thenable and no
\* sequence of callables and thenables throws and leaves _queue unchanged.
C8_AddValidation ==
  [][\A func \in Inputs(FnOk \cup BadProtos) :
       (~ValidInput(func) /\ Commit(add(Called(Self), func)))
         => (threw' /\ _queue' = _queue)]_vars

\* C9: after items are enqueued on an idle engine and drain() is called, if
\* every unit resolves the completion callback is eventually invoked, and
\* _queue is empty at every invocation of the completion callback.
C9_DrainEmpties ==
  /\ [][completeCalls' > completeCalls => Len(_queue') = 0]_vars
  /\ (batchLog # << >>) ~> (completeCalls >= 1)

\* drain() started two batches at once, later ones followed, the callback ran.
C9_Witness ==
  /\ completeCalls >= 1
  /\ Len(_queue) = 0
  /\ Len(batchLog) >= 3
  /\ Len(enqueued) > 2 * concurrency
  /\ inflight = {}

\* C10: without drain(), when every unit resolves, no item enqueued by
\* addNow() while a batch was in flight is still in _queue once the event
\* loop has nothing left to run.
C10_AddNowWhileBusy ==
  Quiescent => \A k \in 1..Len(_queue) : _queue[k].id \notin nowBusy

(***************************************************************************)
(* C11: start() does not dispatch synchronously.  The step in which        *)
(* start() returns a new promise leaves the pending queue, the busy flag,  *)
(* the retry-timer list, the result log and the batches in flight as they  *)
(* were; it installs the new promise's resolve and reject as the           *)
(* completion and error callbacks and schedules one next-turn callback.    *)
(* The dispatch attempt is that callback: whenever one is pending, both    *)
(* callbacks already belong to a promise returned by start().              *)
(***************************************************************************)
C11_StartFrame ==
  /\ [][Len(promises') > Len(promises) =>
          /\ _queue' = _queue
          /\ _working' = _working
          /\ _queueWaiting' = _queueWaiting
          /\ _processed' = _processed
          /\ inflight' = inflight
          /\ batchLog' = batchLog
          /\ ticks' = ticks + 1
          /\ onComplete' = Len(promises')
          /\ onError' = Len(promises')]_vars
  /\ [](ticks > 0 => onComplete = Len(promises) /\ onError = Len(promises)
                                                /\ Len(promises) >= ticks)

\* start() has returned with items pending and nothing dispatched so far;
\* its next-turn callback has not run yet.
C11_Witness ==
  /\ Len(promises) >= 1
  /\ ticks >= 1
  /\ Len(_queue) >= 2
  /\ ~_working
  /\ batchLog = << >>
  /\ onComplete = Len(promises)

\* C12: drain() called with 0 < L < concurrency pending items dispatches all
\* L of them as one batch, and _queue is empty when drain() returns.
C12_DrainPartial ==
  [][(Len(_queue) > 0 /\ Len(_queue) < concurrency /\ Commit(drain(Called(Self))))
       => (Len(_queue') = 0 /\ batchLog' = Append(batchLog, Len(_queue)))]_vars

(***************************************************************************)
(* C13: drain() cancels retries.  A drain() call on a non-empty queue      *)
(* returns with _queueWaiting empty and no retry timer left to fire; a     *)
(* cancelled timer never becomes live again (timers scheduled afterwards   *)
(* have fresh handles), so no retry timer scheduled before the call        *)
(* invokes dispatch after it.                                              *)
(***************************************************************************)
C13_DrainCancels ==
  /\ [][(Len(_queue) > 0 /\ Commit(drain(Called(Self))))
           => (_queueWaiting' = << >> /\ timers' = {})]_vars
  /\ [][\A t \in timers' : t \in timers \/ t >= nextTimer]_vars
  /\ [](cleared \cap timers = {})

\* drain() cancelled both retry timers scheduled so far before either fired,
\* and the run went on.
C13_Witness ==
  /\ Cardinality(cleared) >= 2
  /\ nextTimer = 3
  /\ _queueWaiting = << >>
  /\ timers = {}
  /\ inflight # {}

\* C14: when a dispatched batch rejects, the step that handles the rejection
\* invokes the error callback and leaves the busy flag false.
C14_RejectionClearsBusy ==
  [][rejections' > rejections
       => (errorCalls' = errorCalls + 1 /\ ~_working')]_vars

\* C15: in a run without drain(), once a dispatched batch has rejected no
\* step removes an item from the pending queue and no batch is dispatched,
\* whatever add(), addNow(), start() calls or timer firings follow.
C15_FailureStops ==
  [][rejections > 0
       => /\ Len(_queue') >= Len(_queue)
          /\ SubSeq(_queue', 1, Len(_queue)) = _queue
          /\ batchLog' = batchLog
          /\ inflight' \subseteq inflight]_vars

\* After a rejection, items were enqueued, start() was called again and a
\* retry timer fired and was re-armed: the items are still pending.
C15_Witness ==
  /\ rejections >= 1
  /\ Len(_queue) >= 2
  /\ Len(enqueued) > atStart.enq
  /\ Len(promises) = 2
  /\ ticks = 0
  /\ nextTimer > 2

\* C16: in a step in which a factory throws when dispatch invokes it, the
\* exception does not reach the caller (of addNow(), drain(), or the timer or
\* next-turn callback), the error callback is invoked exactly once, with the
\* exception of a throwing factory that was pending or enqueued by this call
\* and is pending no more, and the busy flag is false when the step is over.
C16_DispatchFault ==
  [][(errorCalls' > errorCalls /\ rejections' = rejections)
       => /\ ~threw'
          /\ errorCalls' = errorCalls + 1
          /\ \E k \in 1..Len(enqueued') :
               /\ enqueued'[k].out = "throw"
               /\ enqueued'[k].id = lastError'
               /\ k > Len(enqueued) \/ enqueued'[k] \in Range(_queue)
               /\ enqueued'[k] \notin Range(_queue')
          /\ ~_working']_vars

\* C17: when a batch that was dispatched before any start() call (by
\* addNow(), with the default error callback) rejects after start() has been
\* called, the promise returned by the latest start() is rejected with the
\* error of the unit that rejected.
C17_StartSeesInFlight ==
  [][\A b \in inflight \ inflight' :
       (rejections' > rejections /\ b.onErr = 0 /\ Len(promises) >= 1)
         => promises'[Len(promises)] = [st |-> "rejected", val |-> << lastError' >>]]_vars

\* C18: every handle in _queueWaiting belongs to a retry timer that has been
\* scheduled and has neither fired nor been cancelled.
C18_LiveTimersOnly ==
  Range(_queueWaiting) \subseteq timers

\* Units of the batches in flight, settled or not.
RECURSIVE SumUnits(_)
SumUnits(S) ==
  IF S = {} THEN 0
  ELSE LET b == CHOOSE x \in S : TRUE IN Len(b.units) + SumUnits(S \ {b})

\* C19: when no unit rejects and no factory throws, with or without drain(),
\* every enqueued item is in exactly one of the pending queue, a batch in
\* flight and the result log: the three hold the enqueued items and nothing
\* else, and their sizes add up to the number of items enqueued.
C19_Conservation ==
  /\ Range(Values(_queue))
       \cup UNION {Range(Values(b.units)) : b \in inflight}
       \cup Range(_processed)
     = Range(Values(enqueued))
  /\ Len(_queue) + SumUnits(inflight) + Len(_processed) = Len(enqueued)

\* After a drain() that cancelled a retry, items are pending, in flight and
\* in the result log at once.
C19_Witness ==
  /\ cleared # {}
  /\ Len(_queue) >= 1
  /\ inflight # {}
  /\ Len(_processed) >= 1

(***************************************************************************)
(* C20: the engine quiesces.  Once no batch is in flight, nothing is left  *)
(* that could clear the busy flag, so a retry timer that fires then must   *)
(* not schedule another one: otherwise, with no further call, the retry    *)
(* re-arms itself for ever and the state with no retry timer pending is    *)
(* never reached.                                                          *)
(***************************************************************************)
C20_Quiesces ==
  [][(inflight = {} /\ timers \ timers' # {})
       => (timers' \subseteq timers /\ nextTimer' = nextTimer)]_vars

====
